---- MODULE Spec2Model ----
(***************************************************************************)
(* GitHub History Weaver: plan compilation (generateSimulationPlan in      *)
(* src/services/geminiService.ts) and the sequential weaving executor      *)
(* (handleWeave in src/App.tsx) together with the React state of App.      *)
(*                                                                         *)
(* Strings that the code builds by interpolation are modelled as tuples of *)
(* their parts.  Date strings are modelled by their calendar fields and    *)
(* the JavaScript Date conversions by the ECMAScript day arithmetic.  The  *)
(* wall-clock timestamp of a log entry is not modelled.                    *)
(***************************************************************************)
EXTENDS Integers, Sequences, FiniteSets, TLC

(***************************************************************************)
(* Bounds of the model.                                                    *)
(***************************************************************************)
MaxPlanLen == 3

(***************************************************************************)
(* JavaScript Date: parsing, arithmetic, toISOString.                      *)
(***************************************************************************)
MsPerDay == 86400000

Years == 2022..2026

\* '' (a cleared <input type="date">) or any other unparsable text
InvalidDate == [form |-> "invalid"]

\* 'YYYY-MM-DD', the value of an <input type="date">
D(y, m, d) == [form |-> "date", y |-> y, m |-> m, d |-> d]

\* 'YYYY-MM-DDTHH:mm:ss.sssZ', ms is the time within the day
Iso(y, m, d, ms) == [form |-> "iso", y |-> y, m |-> m, d |-> d, ms |-> ms]

NaN == [nan |-> TRUE]

TimeValue(day, ms) == [nan |-> FALSE, day |-> day, ms |-> ms]

IsLeap(y) == (y % 4 = 0) /\ ((y % 100 # 0) \/ (y % 400 = 0))

DaysInMonth(y, m) ==
  IF m = 2 THEN (IF IsLeap(y) THEN 29 ELSE 28)
  ELSE IF m \in {4, 6, 9, 11} THEN 30 ELSE 31

\* ECMAScript DayFromYear
DayFromYear(y) ==
  365 * (y - 1970) + ((y - 1969) \div 4) - ((y - 1901) \div 100) + ((y - 1601) \div 400)

RECURSIVE DaysBeforeMonth(_, _)
DaysBeforeMonth(y, m) ==
  IF m = 1 THEN 0 ELSE DaysBeforeMonth(y, m - 1) + DaysInMonth(y, m - 1)

\* ECMAScript MakeDay: a day of month past the month's end runs on into the next
MakeDay(y, m, d) == DayFromYear(y) + DaysBeforeMonth(y, m) + (d - 1)

YearFromDay(day) == CHOOSE y \in Years : DayFromYear(y) <= day /\ day < DayFromYear(y + 1)

MonthFromDay(day) ==
  LET y == YearFromDay(day)
      r == day - DayFromYear(y)
  IN CHOOSE m \in 1..12 : DaysBeforeMonth(y, m) <= r /\ r < DaysBeforeMonth(y, m) + DaysInMonth(y, m)

DateFromDay(day) ==
  LET y == YearFromDay(day)
      m == MonthFromDay(day)
  IN day - DayFromYear(y) - DaysBeforeMonth(y, m) + 1

\* new Date(str).getTime(): a date-only form is UTC midnight, unparsable text is NaN
DateParse(s) ==
  IF s.form = "invalid" THEN NaN
  ELSE IF s.form = "date" THEN TimeValue(MakeDay(s.y, s.m, s.d), 0)
  ELSE TimeValue(MakeDay(s.y, s.m, s.d), s.ms)

\* t + k for a time value t and k milliseconds
AddMs(t, k) ==
  IF t.nan THEN NaN
  ELSE TimeValue(t.day + ((t.ms + k) \div MsPerDay), (t.ms + k) % MsPerDay)

\* Date.prototype.toISOString: throws RangeError on an invalid time value
ToISOString(t) ==
  IF t.nan THEN [threw |-> TRUE]
  ELSE [threw |-> FALSE,
        str |-> Iso(YearFromDay(t.day), MonthFromDay(t.day), DateFromDay(t.day), t.ms)]

\* str.split('T')[0] of an ISO string
SplitT(s) == IF s.form = "iso" THEN D(s.y, s.m, s.d) ELSE s

(***************************************************************************)
(* Configuration (UserConfig, DEFAULT_CONFIG).                             *)
(***************************************************************************)
\* the day the page is loaded
Today == TimeValue(MakeDay(2024, 2, 29), 0)

\* new Date(new Date().setFullYear(new Date().getFullYear() - 1))
SetFullYearBack(t) ==
  TimeValue(MakeDay(YearFromDay(t.day) - 1, MonthFromDay(t.day), DateFromDay(t.day)), t.ms)

DEFAULT_CONFIG ==
  [githubToken |-> "",
   username    |-> "Ashraf-Morningstar",
   targetRepo  |-> "history-weaver-demo",
   startDate   |-> SplitT(ToISOString(SetFullYearBack(Today)).str),
   endDate     |-> SplitT(ToISOString(Today).str),
   techStack   |-> "React & TypeScript",
   intensity   |-> 7,
   strategy    |-> "gitflow",
   includeLfs  |-> TRUE,
   achievements |-> <<"pull_shark", "pair_extraordinaire">>]

\* values typed into the form
Usernames == {"Ashraf-Morningstar", "alice"}
Tokens == {"", "ghp_x", "ghp_y"}
DateInputs == {InvalidDate, D(2024, 2, 29)}

(***************************************************************************)
(* History events (GitEvent) and the generator collaborator.               *)
(***************************************************************************)
EventTypes == {"commit", "branch", "merge", "issue", "pr", "tag"}

\* String.prototype.toUpperCase on an event type
ToUpperCase(t) ==
  CASE t = "commit" -> "COMMIT"
    [] t = "branch" -> "BRANCH"
    [] t = "merge"  -> "MERGE"
    [] t = "issue"  -> "ISSUE"
    [] t = "pr"     -> "PR"
    [] t = "tag"    -> "TAG"

\* an event as the generator writes it under the response schema
GenEvent(id, date) ==
  [id |-> id,
   date |-> date,
   type |-> IF id = "evt_a" THEN "commit" ELSE "pr",
   title |-> IF id = "evt_a" THEN "chore: setup" ELSE "Add login",
   description |-> "",
   branch |-> IF id = "evt_a" THEN "main" ELSE "feature/login",
   filesChanged |-> 1,
   author |-> "alice",
   tags |-> <<>>]

\* the events the generator picks from: two on one day at noon, one much later
EventPool ==
  {GenEvent("evt_a", Iso(2023, 6, 15, 43200000)),
   GenEvent("evt_b", Iso(2023, 6, 15, 43200000)),
   GenEvent("evt_b", Iso(2025, 1, 1, 0))}

SeqsUpTo(S, n) == UNION {[1..k -> S] : k \in 0..n}

\* the arrays the generator may answer with
GenPlans == SeqsUpTo(EventPool, MaxPlanLen)

\* the body of response.text between optional code fences: nothing, text that
\* is not JSON, or the JSON text of an array of events
TextBodies ==
  {[kind |-> "empty"], [kind |-> "garbage"]} \cup {[kind |-> "json", value |-> p] : p \in GenPlans}

\* what ai.models.generateContent does: it rejects, or resolves to a response
\* whose text is undefined or a body, bare or wrapped in ```json ... ```
GenOutcomes ==
  {[fault |-> TRUE]}
    \cup {[fault |-> FALSE, text |-> [undef |-> TRUE]]}
    \cup {[fault |-> FALSE, text |-> [undef |-> FALSE, fenced |-> f, body |-> b]] :
            f \in BOOLEAN, b \in TextBodies}

\* response.text || ""
TextOrEmpty(text) ==
  IF text.undef THEN [undef |-> FALSE, fenced |-> FALSE, body |-> [kind |-> "empty"]] ELSE text

\* text.replace(/```json/g, '').replace(/```/g, '').trim()
StripFences(text) == text.body

\* JSON.parse: throws SyntaxError on text that is not JSON
JsonParse(body) ==
  IF body.kind = "json" THEN [threw |-> FALSE, value |-> body.value] ELSE [threw |-> TRUE]

\* the catch block of generateSimulationPlan: the two fallback events; the
\* second date is new Date(new Date(startDate).getTime() + 86400000).toISOString(),
\* which throws out of the catch block when startDate does not parse
FallbackPlan(cfg) ==
  LET iso == ToISOString(AddMs(DateParse(cfg.startDate), 86400000))
  IN IF iso.threw THEN [threw |-> TRUE]
     ELSE [threw |-> FALSE,
           plan |-> <<
             [id |-> "evt_1",
              date |-> cfg.startDate,
              type |-> "commit",
              title |-> "feat: Initial project scaffold",
              description |-> "Initialize project structure with standard boilerplate",
              branch |-> "main",
              filesChanged |-> 12,
              author |-> cfg.username,
              tags |-> <<"init">>],
             [id |-> "evt_2",
              date |-> iso.str,
              type |-> "branch",
              title |-> "Create branch feature/auth-system",
              description |-> "Branching for authentication system",
              branch |-> "feature/auth-system",
              filesChanged |-> 0,
              author |-> cfg.username,
              tags |-> <<"flow">>] >>]

\* the prompt sent to the generator: the configuration fields it interpolates
Prompt(cfg) ==
  <<cfg.username, cfg.targetRepo, cfg.techStack, cfg.strategy, cfg.startDate,
    cfg.endDate, cfg.intensity, cfg.achievements, cfg.includeLfs>>

\* a variant that takes an empty array for a failed generation
generateSimulationPlan_NonEmptyOnly(cfg, gen) ==
  IF gen.fault THEN FallbackPlan(cfg)
  ELSE LET jsonStr == StripFences(TextOrEmpty(gen.text))
       IN IF jsonStr.kind # "empty"
          THEN (IF JsonParse(jsonStr).threw \/ JsonParse(jsonStr).value = <<>>
                THEN FallbackPlan(cfg)
                ELSE [threw |-> FALSE, plan |-> JsonParse(jsonStr).value])
          ELSE FallbackPlan(cfg)

\* generateSimulationPlan(config) when generateContent behaves as gen
generateSimulationPlan(cfg, gen) ==
  IF gen.fault THEN FallbackPlan(cfg)
  ELSE LET jsonStr == StripFences(TextOrEmpty(gen.text))
       IN IF jsonStr.kind # "empty"
          THEN (IF JsonParse(jsonStr).threw THEN FallbackPlan(cfg)
                ELSE [threw |-> FALSE, plan |-> JsonParse(jsonStr).value])
          ELSE FallbackPlan(cfg)

(***************************************************************************)
(* State of App (useState), of SetupView, and of the running handlers.     *)
(***************************************************************************)
VARIABLES
  phase,        \* SimulationPhase
  config,       \* UserConfig
  plan,         \* GitEvent[]
  logs,         \* LogEntry[]
  progress,     \* a number, kept as a fraction in lowest terms
  isGenerating,
  isWeaving,
  verifying,    \* SetupView
  error,        \* SetupView, "null" when there is none
  gen,          \* the activation of handleGeneratePlan
  weave,        \* the activation of handleWeave: position, i, captured plan and config
  calls,        \* the collaborator calls and settlements of the displayed run, in order
  progressSets, \* the values passed to setProgress in the displayed run, in order
  compiled      \* the generateSimulationPlan call whose result the blueprint shows

vars == <<phase, config, plan, logs, progress, isGenerating, isWeaving, verifying,
          error, gen, weave, calls, progressSets, compiled>>

RECURSIVE Gcd(_, _)
Gcd(a, b) == IF b = 0 THEN a ELSE Gcd(b, a % b)

\* the number num/den
Frac(num, den) == [num |-> num \div Gcd(num, den), den |-> den \div Gcd(num, den)]

FracLeq(a, b) == a.num * b.den <= b.num * a.den

Zero == Frac(0, 1)

Hundred == Frac(100, 1)

\* a variant that uses the loop index i in place of i + 1
ProgressAfter_FromIndex(k, n) == Frac((k - 1) * 100, n)

\* ((i + 1) / plan.length) * 100 for the 0-based loop index i; k is i + 1.
\* The double the code computes is exactly 100 when k = n and otherwise the
\* nearest double to this fraction, so order and equality with 100 are kept.
ProgressAfter(k, n) == Frac(k * 100, n)

PacingDelayMs == 800

\* messages of the remote-repository collaborator
ResultMsgs == {"Pushed to GitHub"}
EventErrMsgs == {"Reference already exists"}
InitErrMsgs == {"Bad credentials"}

NoGen == [pc |-> "idle"]

NoWeave == [pc |-> "idle"]

NoCompile == [made |-> FALSE]

\* a variant that puts the new entry first
addLog_Prepend(l, message, level) == <<[level |-> level, message |-> message]>> \o l

\* addLog: setLogs(prev => [...prev, {timestamp, level, message}])
addLog(l, message, level) == Append(l, [level |-> level, message |-> message])

Call(op, ev, i, arg) == [op |-> op, ev |-> ev, i |-> i, arg |-> arg]

Init ==
  /\ phase = "setup"
  /\ config = DEFAULT_CONFIG
  /\ plan = <<>>
  /\ logs = <<>>
  /\ progress = Zero
  /\ isGenerating = FALSE
  /\ isWeaving = FALSE
  /\ verifying = FALSE
  /\ error = "null"
  /\ gen = NoGen
  /\ weave = NoWeave
  /\ calls = <<>>
  /\ progressSets = <<>>
  /\ compiled = NoCompile

(***************************************************************************)
(* SetupView                                                               *)
(***************************************************************************)
SetUsername ==
  /\ phase = "setup"
  /\ \E u \in Usernames : config' = [config EXCEPT !.username = u]
  /\ UNCHANGED <<phase, plan, logs, progress, isGenerating, isWeaving, verifying, error,
                 gen, weave, calls, progressSets, compiled>>

SetToken ==
  /\ phase = "setup"
  /\ \E t \in Tokens : config' = [config EXCEPT !.githubToken = t]
  /\ UNCHANGED <<phase, plan, logs, progress, isGenerating, isWeaving, verifying, error,
                 gen, weave, calls, progressSets, compiled>>

\* handleVerify up to its await
VerifyStart ==
  /\ phase = "setup"
  /\ ~(verifying \/ config.githubToken = "" \/ config.targetRepo = "")
  /\ verifying' = TRUE
  /\ error' = "null"
  /\ UNCHANGED <<phase, config, plan, logs, progress, isGenerating, isWeaving,
                 gen, weave, calls, progressSets, compiled>>

\* initGitHub resolves: onNext(), then the view is unmounted
VerifyResolved ==
  /\ phase = "setup"
  /\ verifying
  /\ phase' = "config"
  /\ verifying' = FALSE
  /\ UNCHANGED <<config, plan, logs, progress, isGenerating, isWeaving, error,
                 gen, weave, calls, progressSets, compiled>>

\* initGitHub throws
VerifyRejected ==
  /\ phase = "setup"
  /\ verifying
  /\ \E m \in InitErrMsgs : error' = m
  /\ verifying' = FALSE
  /\ UNCHANGED <<phase, config, plan, logs, progress, isGenerating, isWeaving,
                 gen, weave, calls, progressSets, compiled>>

(***************************************************************************)
(* ConfigView                                                              *)
(***************************************************************************)
SetStartDate ==
  /\ phase = "config"
  /\ \E d \in DateInputs : config' = [config EXCEPT !.startDate = d]
  /\ UNCHANGED <<phase, plan, logs, progress, isGenerating, isWeaving, verifying, error,
                 gen, weave, calls, progressSets, compiled>>

SetEndDate ==
  /\ phase = "config"
  /\ \E d \in DateInputs : config' = [config EXCEPT !.endDate = d]
  /\ UNCHANGED <<phase, plan, logs, progress, isGenerating, isWeaving, verifying, error,
                 gen, weave, calls, progressSets, compiled>>

ConfigBack ==
  /\ phase = "config"
  /\ phase' = "setup"
  /\ verifying' = FALSE
  /\ error' = "null"
  /\ UNCHANGED <<config, plan, logs, progress, isGenerating, isWeaving,
                 gen, weave, calls, progressSets, compiled>>

(***************************************************************************)
(* handleGeneratePlan                                                      *)
(***************************************************************************)
\* up to the await: the prompt is rendered from the configuration of the click
GenerateStart ==
  /\ phase = "config"
  /\ isGenerating' = TRUE
  /\ phase' = "blueprint"
  /\ gen' = [pc |-> "awaiting", config |-> config, prompt |-> Prompt(config)]
  /\ UNCHANGED <<config, plan, logs, progress, isWeaving, verifying, error,
                 weave, calls, progressSets, compiled>>

HandleGenerateSettled(g) ==
  LET r == generateSimulationPlan(gen.config, g)
  IN /\ compiled' = [made |-> TRUE, config |-> gen.config, gen |-> g, result |-> r]
     /\ IF r.threw
        THEN \* the await rejects: the rest of the handler never runs
             /\ gen' = [pc |-> "rejected"]
             /\ UNCHANGED <<plan, isGenerating>>
        ELSE /\ plan' = r.plan
             /\ isGenerating' = FALSE
             /\ gen' = NoGen
     /\ UNCHANGED <<phase, config, logs, progress, isWeaving, verifying, error,
                    weave, calls, progressSets>>

\* the generator collaborator settles and the handler runs to its end
GenerateSettled ==
  /\ gen.pc = "awaiting"
  /\ \E g \in GenOutcomes : HandleGenerateSettled(g)

(***************************************************************************)
(* BlueprintView                                                           *)
(***************************************************************************)
BlueprintBack ==
  /\ phase = "blueprint"
  /\ ~isGenerating
  /\ phase' = "config"
  /\ compiled' = NoCompile
  /\ UNCHANGED <<config, plan, logs, progress, isGenerating, isWeaving, verifying, error,
                 gen, weave, calls, progressSets>>

(***************************************************************************)
(* handleWeave                                                             *)
(***************************************************************************)
\* a variant that names the credential in the first entry
InitMsg_WithToken(cfg) ==
  <<"Initializing GitHub connection for ", cfg.username, ":", cfg.githubToken, "/", cfg.targetRepo>>

InitMsg(cfg) == <<"Initializing GitHub connection for ", cfg.username, "/", cfg.targetRepo, "...">>

ConnectedMsg(n) == <<"Connected securely. Starting sequence of ", n, " events.">>

ProcessingMsg(event) == <<"Processing [", ToUpperCase(event.type), "] ", event.title, "...">>

FailedMsg(m) == <<"Failed: ", m>>

AllProcessedMsg == <<"All events processed successfully.">>

CriticalMsg(m) == <<"Critical Error: ", m>>

\* the finally block, after the log has become l and the call history c
Finally(l, c) ==
  /\ logs' = l
  /\ calls' = c
  /\ isWeaving' = FALSE
  /\ progress' = Hundred
  /\ progressSets' = Append(progressSets, Hundred)
  /\ phase' = "complete"
  /\ weave' = NoWeave

\* a variant that ends the run without the closing entry
LoopFrom_NoClosing(k, l, c) ==
  IF k <= Len(weave.plan)
  THEN /\ logs' = addLog(l, ProcessingMsg(weave.plan[k]), "info")
       /\ calls' = Append(c, Call("executeGitEvent", "call", k, <<weave.plan[k], weave.config>>))
       /\ weave' = [weave EXCEPT !.pc = "exec", !.i = k]
       /\ UNCHANGED <<phase, isWeaving, progress, progressSets>>
  ELSE Finally(l, c)

\* a variant whose closing entry is a warning when some event failed
LoopFrom_ClosingByOutcome(k, l, c) ==
  IF k <= Len(weave.plan)
  THEN /\ logs' = addLog(l, ProcessingMsg(weave.plan[k]), "info")
       /\ calls' = Append(c, Call("executeGitEvent", "call", k, <<weave.plan[k], weave.config>>))
       /\ weave' = [weave EXCEPT !.pc = "exec", !.i = k]
       /\ UNCHANGED <<phase, isWeaving, progress, progressSets>>
  ELSE Finally(addLog(l, AllProcessedMsg,
                      IF \E p \in DOMAIN c : c[p].ev = "reject" THEN "warning" ELSE "success"), c)

\* the loop test i < plan.length for the 1-based index k = i + 1, and what
\* follows up to the next await: the next event's info entry and remote call,
\* or the closing entry and the finally block
LoopFrom(k, l, c) ==
  IF k <= Len(weave.plan)
  THEN /\ logs' = addLog(l, ProcessingMsg(weave.plan[k]), "info")
       /\ calls' = Append(c, Call("executeGitEvent", "call", k, <<weave.plan[k], weave.config>>))
       /\ weave' = [weave EXCEPT !.pc = "exec", !.i = k]
       /\ UNCHANGED <<phase, isWeaving, progress, progressSets>>
  ELSE Finally(addLog(l, AllProcessedMsg, "success"), c)

\* a variant that leaves the progress of the run before as it is
WeaveStart_KeepProgress ==
  /\ phase = "blueprint"
  /\ ~isGenerating
  /\ phase' = "weaving"
  /\ logs' = addLog(<<>>, InitMsg(config), "info")
  /\ progressSets' = <<progress>>
  /\ isWeaving' = TRUE
  /\ calls' = <<Call("initGitHub", "call", 0,
                     <<config.githubToken, config.targetRepo, config.username>>)>>
  /\ weave' = [pc |-> "connecting", i |-> 0, plan |-> plan, config |-> config]
  /\ compiled' = NoCompile
  /\ UNCHANGED <<config, plan, progress, isGenerating, verifying, error, gen>>

\* a variant whose button is still there while the run goes on
WeaveStart_Reentrant ==
  /\ phase \in {"blueprint", "weaving"}
  /\ ~isGenerating
  /\ phase' = "weaving"
  /\ logs' = addLog(<<>>, InitMsg(config), "info")
  /\ progress' = Zero
  /\ progressSets' = <<Zero>>
  /\ isWeaving' = TRUE
  /\ calls' = <<Call("initGitHub", "call", 0,
                     <<config.githubToken, config.targetRepo, config.username>>)>>
  /\ weave' = [pc |-> "connecting", i |-> 0, plan |-> plan, config |-> config]
  /\ compiled' = NoCompile
  /\ UNCHANGED <<config, plan, isGenerating, verifying, error, gen>>

\* the click on 'Start Live Weaving', up to await initGitHub
WeaveStart ==
  /\ phase = "blueprint"
  /\ ~isGenerating
  /\ phase' = "weaving"
  /\ logs' = addLog(<<>>, InitMsg(config), "info")
  /\ progress' = Zero
  /\ progressSets' = <<Zero>>
  /\ isWeaving' = TRUE
  /\ calls' = <<Call("initGitHub", "call", 0,
                     <<config.githubToken, config.targetRepo, config.username>>)>>
  /\ weave' = [pc |-> "connecting", i |-> 0, plan |-> plan, config |-> config]
  /\ compiled' = NoCompile
  /\ UNCHANGED <<config, plan, isGenerating, verifying, error, gen>>

\* initGitHub resolves
ConnectResolved ==
  /\ weave.pc = "connecting"
  /\ LoopFrom(1, addLog(logs, ConnectedMsg(Len(weave.plan)), "success"),
              Append(calls, Call("initGitHub", "resolve", 0, <<>>)))
  /\ UNCHANGED <<config, plan, isGenerating, verifying, error, gen, compiled>>

\* a variant that logs the connection failure and goes on to the events
ConnectRejected_Continue ==
  /\ weave.pc = "connecting"
  /\ \E m \in InitErrMsgs :
       LoopFrom(1, addLog(logs, CriticalMsg(m), "error"),
                Append(calls, Call("initGitHub", "reject", 0, <<m>>)))
  /\ UNCHANGED <<config, plan, isGenerating, verifying, error, gen, compiled>>

\* initGitHub throws: the outer catch, then finally
ConnectRejected ==
  /\ weave.pc = "connecting"
  /\ \E m \in InitErrMsgs :
       Finally(addLog(logs, CriticalMsg(m), "error"),
               Append(calls, Call("initGitHub", "reject", 0, <<m>>)))
  /\ UNCHANGED <<config, plan, isGenerating, verifying, error, gen, compiled>>

\* after the try/catch around executeGitEvent: setProgress and the pacing delay
AfterEvent(l, c) ==
  /\ logs' = l
  /\ progress' = ProgressAfter(weave.i, Len(weave.plan))
  /\ progressSets' = Append(progressSets, ProgressAfter(weave.i, Len(weave.plan)))
  /\ calls' = Append(c, Call("setTimeout", "call", weave.i, <<PacingDelayMs>>))
  /\ weave' = [weave EXCEPT !.pc = "delay"]
  /\ UNCHANGED <<phase, isWeaving>>

\* executeGitEvent resolves to a result message
ExecResolved ==
  /\ weave.pc = "exec"
  /\ \E m \in ResultMsgs :
       AfterEvent(addLog(logs, <<m>>, "success"),
                  Append(calls, Call("executeGitEvent", "resolve", weave.i, <<m>>)))
  /\ UNCHANGED <<config, plan, isGenerating, verifying, error, gen, compiled>>

\* a variant without the inner try/catch: the failure reaches the outer catch
ExecRejected_Abort ==
  /\ weave.pc = "exec"
  /\ \E m \in EventErrMsgs :
       Finally(addLog(logs, CriticalMsg(m), "error"),
               Append(calls, Call("executeGitEvent", "reject", weave.i, <<m>>)))
  /\ UNCHANGED <<config, plan, isGenerating, verifying, error, gen, compiled>>

\* a variant whose catch block goes on to the next iteration at once (continue),
\* skipping setProgress and the pacing delay
ExecRejected_Continue ==
  /\ weave.pc = "exec"
  /\ \E m \in EventErrMsgs :
       LoopFrom(weave.i + 1, addLog(logs, FailedMsg(m), "error"),
                Append(calls, Call("executeGitEvent", "reject", weave.i, <<m>>)))
  /\ UNCHANGED <<config, plan, isGenerating, verifying, error, gen, compiled>>

\* a variant whose catch block swallows the failure without a log entry
ExecRejected_Silent ==
  /\ weave.pc = "exec"
  /\ \E m \in EventErrMsgs :
       AfterEvent(logs, Append(calls, Call("executeGitEvent", "reject", weave.i, <<m>>)))
  /\ UNCHANGED <<config, plan, isGenerating, verifying, error, gen, compiled>>

\* executeGitEvent throws: the inner catch
ExecRejected ==
  /\ weave.pc = "exec"
  /\ \E m \in EventErrMsgs :
       AfterEvent(addLog(logs, FailedMsg(m), "error"),
                  Append(calls, Call("executeGitEvent", "reject", weave.i, <<m>>)))
  /\ UNCHANGED <<config, plan, isGenerating, verifying, error, gen, compiled>>

\* the pacing timer fires: i++ and the loop test
DelayFired ==
  /\ weave.pc = "delay"
  /\ LoopFrom(weave.i + 1, logs, Append(calls, Call("setTimeout", "fire", weave.i, <<>>)))
  /\ UNCHANGED <<config, plan, isGenerating, verifying, error, gen, compiled>>

(***************************************************************************)
(* ExecutionView                                                           *)
(***************************************************************************)
\* a variant whose button is rendered on progress === 100 alone
onDone_ProgressOnly ==
  /\ phase \in {"weaving", "complete"}
  /\ progress = Hundred
  /\ phase' = "setup"
  /\ logs' = <<>>
  /\ plan' = <<>>
  /\ verifying' = FALSE
  /\ error' = "null"
  /\ calls' = <<>>
  /\ progressSets' = <<>>
  /\ UNCHANGED <<config, progress, isGenerating, isWeaving, gen, weave, compiled>>

\* 'New Simulation', rendered when !isWeaving && progress === 100
onDone ==
  /\ phase \in {"weaving", "complete"}
  /\ ~isWeaving /\ progress = Hundred
  /\ phase' = "setup"
  /\ logs' = <<>>
  /\ plan' = <<>>
  /\ verifying' = FALSE
  /\ error' = "null"
  /\ calls' = <<>>
  /\ progressSets' = <<>>
  /\ UNCHANGED <<config, progress, isGenerating, isWeaving, gen, weave, compiled>>

Next ==
  \/ SetUsername
  \/ SetToken
  \/ VerifyStart
  \/ VerifyResolved
  \/ VerifyRejected
  \/ SetStartDate
  \/ SetEndDate
  \/ ConfigBack
  \/ GenerateStart
  \/ GenerateSettled
  \/ BlueprintBack
  \/ WeaveStart
  \/ ConnectResolved
  \/ ConnectRejected
  \/ ExecResolved
  \/ ExecRejected
  \/ DelayFired
  \/ onDone

Spec == Init /\ [][Next]_vars

\* every pending collaborator call and every pending pacing timer settles
SpecFair ==
  /\ Spec
  /\ WF_vars(ConnectResolved \/ ConnectRejected)
  /\ WF_vars(ExecResolved \/ ExecRejected)
  /\ WF_vars(DelayFired)

(***************************************************************************)
(* generateSimulationPlan on its own: handleGeneratePlan has been clicked  *)
(* with some configuration of the form and the generator is about to       *)
(* settle.                                                                 *)
(***************************************************************************)
CompileDates ==
  {InvalidDate, D(2023, 3, 1), D(2023, 12, 31), D(2024, 2, 28), D(2024, 2, 29)}

CompileConfigs ==
  {[DEFAULT_CONFIG EXCEPT !.githubToken = "ghp_x", !.username = u, !.startDate = s, !.endDate = e] :
     u \in Usernames, s \in CompileDates, e \in CompileDates}

InitCompile ==
  /\ phase = "blueprint"
  /\ config \in CompileConfigs
  /\ plan = <<>>
  /\ logs = <<>>
  /\ progress = Zero
  /\ isGenerating = TRUE
  /\ isWeaving = FALSE
  /\ verifying = FALSE
  /\ error = "null"
  /\ gen = [pc |-> "awaiting", config |-> config, prompt |-> Prompt(config)]
  /\ weave = NoWeave
  /\ calls = <<>>
  /\ progressSets = <<>>
  /\ compiled = NoCompile

NextCompile == GenerateSettled

SpecCompile == InitCompile /\ [][NextCompile]_vars

(***************************************************************************)
(* Reading the call history and the log of the displayed run.              *)
(***************************************************************************)
IsExecCall(c) == c.op = "executeGitEvent" /\ c.ev = "call"

IsExecSettle(c) == c.op = "executeGitEvent" /\ c.ev \in {"resolve", "reject"}

ExecCalls == SelectSeq(calls, IsExecCall)

ExecSettles == SelectSeq(calls, IsExecSettle)

Connected == \E p \in DOMAIN calls : calls[p].op = "initGitHub" /\ calls[p].ev = "resolve"

ConnectFailed == \E p \in DOMAIN calls : calls[p].op = "initGitHub" /\ calls[p].ev = "reject"

Terminated == phase = "complete"

SomeEventFailed == \E p \in DOMAIN calls : calls[p].op = "executeGitEvent" /\ calls[p].ev = "reject"

SomeEventSucceeded == \E p \in DOMAIN calls : calls[p].op = "executeGitEvent" /\ calls[p].ev = "resolve"

(***************************************************************************)
(* C1: during a run the events are executed strictly in plan order and one *)
(* at a time: executeGitEvent for an event is started only right after the *)
(* pacing timer of the event before it has fired (for the first event,     *)
(* right after initGitHub has resolved), that earlier event's call having  *)
(* settled before; every settled call, resolved or thrown, is followed at  *)
(* once by the 800 ms pacing delay of the same event, and nothing else is  *)
(* started while a call or a delay is pending.                             *)
(***************************************************************************)
C1_SequentialPaced ==
  \A p \in DOMAIN calls :
    /\ IsExecCall(calls[p]) =>
         /\ calls[p].i \in 1..Len(plan)
         /\ calls[p].arg[1] = plan[calls[p].i]
         /\ p > 1
         /\ IF calls[p].i = 1
            THEN calls[p - 1] = Call("initGitHub", "resolve", 0, <<>>)
            ELSE /\ calls[p - 1] = Call("setTimeout", "fire", calls[p].i - 1, <<>>)
                 /\ \E q \in 1..(p - 1) : IsExecSettle(calls[q]) /\ calls[q].i = calls[p].i - 1
         /\ p < Len(calls) => IsExecSettle(calls[p + 1]) /\ calls[p + 1].i = calls[p].i
    /\ IsExecSettle(calls[p]) =>
         /\ p < Len(calls)
         /\ calls[p + 1] = Call("setTimeout", "call", calls[p].i, <<PacingDelayMs>>)
    /\ (calls[p].op = "setTimeout" /\ calls[p].ev = "call" /\ p < Len(calls)) =>
         calls[p + 1] = Call("setTimeout", "fire", calls[p].i, <<>>)

\* the second event has been started after the first one failed
C1_Witness ==
  /\ \E p \in DOMAIN calls : IsExecCall(calls[p]) /\ calls[p].i = 2
  /\ \E q \in DOMAIN calls : calls[q].op = "executeGitEvent" /\ calls[q].ev = "reject" /\ calls[q].i = 1

(***************************************************************************)
(* C2: when the connection step has succeeded, executeGitEvent is invoked  *)
(* at most once per event while the run goes on, and by the time the run   *)
(* has terminated exactly once for each of the n events of the plan, in    *)
(* plan order and with that event, whichever of the calls failed.          *)
(***************************************************************************)
C2_EachEventOnce ==
  Connected =>
    /\ \A k \in DOMAIN ExecCalls : ExecCalls[k].i = k /\ ExecCalls[k].arg[1] = plan[k]
    /\ Len(ExecCalls) <= Len(plan)
    /\ Terminated => Len(ExecCalls) = Len(plan)

\* a terminated run of three events whose second call failed
C2_Witness ==
  /\ Terminated /\ Connected /\ Len(plan) = 3
  /\ \E q \in DOMAIN calls : calls[q].op = "executeGitEvent" /\ calls[q].ev = "reject" /\ calls[q].i = 2
  /\ Len(ExecCalls) = 3

(***************************************************************************)
(* C3: if initGitHub fails at the start of a run, no executeGitEvent call  *)
(* is made in that run, the log holds exactly one error entry, and the run *)
(* has terminated with progress 100.                                       *)
(***************************************************************************)
C3_ConnectionFailure ==
  ConnectFailed =>
    /\ ExecCalls = <<>>
    /\ Cardinality({k \in DOMAIN logs : logs[k].level = "error"}) = 1
    /\ Terminated /\ ~isWeaving
    /\ progress = Hundred

\* the connection failed with a plan of events waiting
C3_Witness == ConnectFailed /\ Len(plan) > 0 /\ Terminated

(***************************************************************************)
(* C4: within a run the progress value lies in [0,100]; the run starts by  *)
(* setting it to 0; after that it is set exactly once per settled event,   *)
(* to k/n*100 after the k-th of n events whatever that event's outcome,    *)
(* and once more, to 100, when the run terminates, whether normally or on  *)
(* a connection failure; the values set never decrease and the value shown *)
(* is the last one set.                                                    *)
(***************************************************************************)
C4_Progress ==
  /\ FracLeq(Zero, progress) /\ FracLeq(progress, Hundred)
  /\ phase \in {"weaving", "complete"} =>
       /\ Len(progressSets) = 1 + Len(ExecSettles) + (IF Terminated THEN 1 ELSE 0)
       /\ progressSets[1] = Zero
       /\ \A k \in DOMAIN ExecSettles :
            /\ ExecSettles[k].i = k
            /\ progressSets[1 + k].num * Len(plan) = k * 100 * progressSets[1 + k].den
       /\ \A k \in 1..(Len(progressSets) - 1) : FracLeq(progressSets[k], progressSets[k + 1])
       /\ progress = progressSets[Len(progressSets)]
       /\ Terminated => progress = Hundred
       /\ Terminated <=> ~isWeaving

\* a terminated run of three events, one of them failed: 0, 100/3, 200/3, 100, 100
C4_Witness ==
  /\ Terminated /\ Connected /\ SomeEventFailed /\ SomeEventSucceeded
  /\ progressSets = <<Zero, Frac(100, 3), Frac(200, 3), Hundred, Hundred>>

(***************************************************************************)
(* C5: when the connection has succeeded, the log after its first two      *)
(* entries consists of one pair per started event, in plan order: the info *)
(* entry naming the k-th event of the plan, present as soon as its remote  *)
(* call is started, then, once that call has settled, one outcome entry,   *)
(* a success entry carrying the result message if the call resolved and an *)
(* error entry carrying the reason if it threw; a terminated run has       *)
(* exactly n such pairs, followed by the closing entry only.               *)
(***************************************************************************)
C5_LogPairs ==
  Connected =>
    /\ Len(ExecSettles) \in {Len(ExecCalls), Len(ExecCalls) - 1}
    /\ Len(logs) = 2 + Len(ExecCalls) + Len(ExecSettles) + (IF Terminated THEN 1 ELSE 0)
    /\ Terminated => Len(ExecCalls) = Len(plan) /\ Len(ExecSettles) = Len(plan)
    /\ \A k \in DOMAIN ExecCalls :
         logs[2 * k + 1] = [level |-> "info", message |-> ProcessingMsg(plan[k])]
    /\ \A k \in DOMAIN ExecSettles :
         /\ ExecSettles[k].i = k
         /\ ExecSettles[k].ev = "resolve" =>
              logs[2 * k + 2] = [level |-> "success", message |-> ExecSettles[k].arg]
         /\ ExecSettles[k].ev = "reject" =>
              logs[2 * k + 2] = [level |-> "error", message |-> FailedMsg(ExecSettles[k].arg[1])]

\* a terminated run of three events with both outcomes
C5_Witness ==
  /\ Terminated /\ Connected /\ Len(plan) = 3
  /\ SomeEventFailed /\ SomeEventSucceeded
  /\ plan[1] # plan[2]

(***************************************************************************)
(* C6 as stated: for an empty plan with a successful connection the run    *)
(* reaches done with progress 100 and a log that contains only the         *)
(* connection-success entry.                                               *)
(***************************************************************************)
C6_Original ==
  (Terminated /\ Connected /\ Len(plan) = 0) =>
    /\ progress = Hundred
    /\ \A k \in DOMAIN logs : logs[k] = [level |-> "success", message |-> ConnectedMsg(0)]

(***************************************************************************)
(* C6 amended: for an empty plan with a successful connection the run      *)
(* reaches done with progress 100 and a log of exactly three entries, none *)
(* of them per-event: the initial info entry, the connection-success entry *)
(* and the closing success entry.                                          *)
(***************************************************************************)
C6_EmptyPlan ==
  (Terminated /\ Connected /\ Len(plan) = 0) =>
    /\ progress = Hundred
    /\ ~isWeaving
    /\ logs = << [level |-> "info", message |-> InitMsg(config)],
                 [level |-> "success", message |-> ConnectedMsg(0)],
                 [level |-> "success", message |-> AllProcessedMsg] >>

\* a run of the empty plan has terminated after a successful connection
C6_Witness == Terminated /\ Connected /\ Len(plan) = 0 /\ ExecCalls = <<>>

(***************************************************************************)
(* Reading a generateSimulationPlan call.                                  *)
(***************************************************************************)
\* the generator succeeded: it answered with text that parses as an array
GenSucceeded(g) == ~g.fault /\ ~g.text.undef /\ g.text.body.kind = "json"

ValidDate(s) == s.form # "invalid"

TimeLeq(a, b) == a.day < b.day \/ (a.day = b.day /\ a.ms <= b.ms)

\* start and end are calendar dates with start <= end
ValidConfig(cfg) ==
  /\ ValidDate(cfg.startDate) /\ ValidDate(cfg.endDate)
  /\ TimeLeq(DateParse(cfg.startDate), DateParse(cfg.endDate))

\* the event's date-time falls on a day of the window [startDate, endDate]
InWindow(e, cfg) ==
  /\ ValidDate(e.date)
  /\ DateParse(cfg.startDate).day <= DateParse(e.date).day
  /\ DateParse(e.date).day <= DateParse(cfg.endDate).day

\* the calendar day after y-m-d, by the calendar and not by day numbers
DayAfter(s) ==
  IF s.d < DaysInMonth(s.y, s.m) THEN Iso(s.y, s.m, s.d + 1, 0)
  ELSE IF s.m < 12 THEN Iso(s.y, s.m + 1, 1, 0)
  ELSE Iso(s.y + 1, 1, 1, 0)

\* the plan has the two events the fallback is specified to have
IsFallbackOf(p, cfg) ==
  /\ Len(p) = 2
  /\ p[1].type = "commit" /\ p[1].date = cfg.startDate /\ p[1].branch = "main"
  /\ p[1].author = cfg.username
  /\ p[2].type = "branch" /\ p[2].date = DayAfter(cfg.startDate)
  /\ p[2].branch = "feature/auth-system" /\ p[2].author = cfg.username

(***************************************************************************)
(* C7: generateSimulationPlan never fails outwardly: for every             *)
(* configuration and every behaviour of the generator the call returns a   *)
(* plan, and a generator fault, an empty response and an unparsable        *)
(* response each yield the two-event fallback plan.                        *)
(***************************************************************************)
C7_NeverFails ==
  compiled.made =>
    /\ ~compiled.result.threw
    /\ ~GenSucceeded(compiled.gen) =>
         /\ ~ValidDate(compiled.config.startDate) => Len(compiled.result.plan) = 2
         /\ ValidDate(compiled.config.startDate) =>
              IsFallbackOf(compiled.result.plan, compiled.config)

(***************************************************************************)
(* C8: for every valid configuration, when the generator succeeds the      *)
(* returned plan is non-empty and every event's date lies within           *)
(* [startDate, endDate].                                                   *)
(***************************************************************************)
C8_NonEmptyInWindow ==
  (compiled.made /\ GenSucceeded(compiled.gen) /\ ValidConfig(compiled.config)) =>
    /\ ~compiled.result.threw
    /\ Len(compiled.result.plan) > 0
    /\ \A k \in DOMAIN compiled.result.plan : InWindow(compiled.result.plan[k], compiled.config)

(***************************************************************************)
(* C9: with the generator forced to fail, generateSimulationPlan always    *)
(* returns the same two-event plan, determined by startDate and username:  *)
(* a commit dated startDate on main, then a branch event dated one day     *)
(* after startDate on feature/auth-system, both by the configured user.    *)
(***************************************************************************)
C9_FallbackFixed ==
  (compiled.made /\ ~GenSucceeded(compiled.gen)) =>
    /\ ~compiled.result.threw
    /\ Len(compiled.result.plan) = 2
    /\ compiled.result.plan[1].id = "evt_1" /\ compiled.result.plan[2].id = "evt_2"
    /\ compiled.result.plan[1].type = "commit" /\ compiled.result.plan[2].type = "branch"
    /\ compiled.result.plan[1].branch = "main"
    /\ compiled.result.plan[2].branch = "feature/auth-system"
    /\ compiled.result.plan[1].author = compiled.config.username
    /\ compiled.result.plan[2].author = compiled.config.username
    /\ compiled.result.plan[1].date = compiled.config.startDate
    /\ ValidDate(compiled.config.startDate) =>
         compiled.result.plan[2].date = DayAfter(compiled.config.startDate)
    /\ compiled.result = generateSimulationPlan(
         [DEFAULT_CONFIG EXCEPT !.startDate = compiled.config.startDate,
                                !.username = compiled.config.username],
         [fault |-> TRUE])

(***************************************************************************)
(* C10: for every valid configuration, startDate = endDate included, the   *)
(* fallback plan is well-formed: its event ids are unique, its events are  *)
(* non-decreasing in date-time, and every event's date-time falls within   *)
(* [startDate, endDate].                                                   *)
(***************************************************************************)
C10_FallbackWellFormed ==
  (compiled.made /\ ~GenSucceeded(compiled.gen) /\ ValidConfig(compiled.config)) =>
    /\ ~compiled.result.threw
    /\ \A j, k \in DOMAIN compiled.result.plan :
         /\ compiled.result.plan[j].id = compiled.result.plan[k].id => j = k
         /\ j <= k => TimeLeq(DateParse(compiled.result.plan[j].date),
                             DateParse(compiled.result.plan[k].date))
    /\ \A k \in DOMAIN compiled.result.plan : InWindow(compiled.result.plan[k], compiled.config)

(***************************************************************************)
(* C11: every plan handed to the executor (the plan handleWeave reads,     *)
(* after any sequence of compile actions) is non-decreasing in date-time.  *)
(***************************************************************************)
C11_PlanChronological ==
  phase = "weaving" =>
    \A k \in 1..(Len(weave.plan) - 1) :
      TimeLeq(DateParse(weave.plan[k].date), DateParse(weave.plan[k + 1].date))

IdlePhases == {"setup", "config", "blueprint"}

IsPrefix(a, b) == Len(a) <= Len(b) /\ SubSeq(b, 1, Len(a)) = a

\* the configuration with the credential blanked
Redact(cfg) == [cfg EXCEPT !.githubToken = ""]

(***************************************************************************)
(* C13 as stated: log and progress are both reset on the transition to     *)
(* idle and at the start of a new run, so that outside a run the log is    *)
(* empty and the progress is 0.                                            *)
(***************************************************************************)
C13_Original == phase \in IdlePhases => (logs = <<>> /\ progress = Zero)

(***************************************************************************)
(* C13 amended: the start of a new run resets both, the log to the run's   *)
(* own first entry and the progress to 0; the return to idle clears the    *)
(* log only, so outside a run the log is always empty while the progress   *)
(* keeps the 100 of the run before until the next run starts.              *)
(***************************************************************************)
C13_ResetAtRunStart ==
  /\ [](phase \in IdlePhases => logs = <<>>)
  /\ [][(phase \in IdlePhases /\ phase' = "weaving") =>
          /\ logs' = <<[level |-> "info", message |-> InitMsg(config)]>>
          /\ progress' = Zero]_vars
  /\ [][(phase \notin IdlePhases /\ phase' \in IdlePhases) =>
          /\ logs' = <<>>
          /\ progress' = progress /\ progress = Hundred]_vars

\* back at the blueprint after an earlier run: its progress 100 is still held
C13_Witness == phase = "blueprint" /\ ~isGenerating /\ progress = Hundred /\ logs = <<>>

(***************************************************************************)
(* C14: the log is append-only for the lifetime of a run: from the run's   *)
(* start until the user starts a new simulation every step leaves the log  *)
(* a prefix of what it becomes (each addLog adds one entry at the end, a   *)
(* handler segment between two awaits makes at most two addLog calls), and *)
(* once the run is done the log stays as it is, and is not empty, until    *)
(* the reset.                                                              *)
(***************************************************************************)
C14_AppendOnly ==
  /\ [][(phase \notin IdlePhases /\ phase' \notin IdlePhases) =>
          /\ IsPrefix(logs, logs')
          /\ Len(logs') <= Len(logs) + 2
          /\ Terminated => logs' = logs]_vars
  /\ [](phase \notin IdlePhases => logs # <<>>)

\* a finished run of two events whose log has grown entry by entry
C14_Witness == Terminated /\ Connected /\ Len(plan) = 2 /\ Len(logs) = 7

(***************************************************************************)
(* C15: the access token is never logged and never put into the prompt:    *)
(* the first log entry and the prompt are what the configuration with the  *)
(* token blanked gives, and every other log entry is built from the plan   *)
(* and the collaborators' messages alone; so runs that differ only in the  *)
(* token, with the same collaborator outcomes, have the same log and the   *)
(* same prompt.                                                            *)
(***************************************************************************)
C15_TokenNotLogged ==
  /\ gen.pc = "awaiting" => gen.prompt = Prompt(Redact(gen.config))
  /\ \A k \in DOMAIN logs :
       IF k = 1
       THEN logs[k].message = InitMsg(Redact(config))
       ELSE logs[k].message \in
              {ConnectedMsg(Len(plan)), AllProcessedMsg}
                \cup {ProcessingMsg(plan[j]) : j \in DOMAIN plan}
                \cup {<<m>> : m \in ResultMsgs}
                \cup {FailedMsg(m) : m \in EventErrMsgs}
                \cup {CriticalMsg(m) : m \in InitErrMsgs}

\* a finished run made with the second token
C15_Witness ==
  /\ Terminated /\ Connected /\ Len(plan) > 0
  /\ config.githubToken = "ghp_y"
  /\ calls[1].arg[1] = "ghp_y"

(***************************************************************************)
(* The user actions that replace the plan or edit the configuration.       *)
(***************************************************************************)
PlanOrConfigAction ==
  \/ SetUsername
  \/ SetToken
  \/ SetStartDate
  \/ SetEndDate
  \/ GenerateStart
  \/ GenerateSettled
  \/ onDone

RunActive == weave.pc # "idle"

(***************************************************************************)
(* C17: the executor treats plan and configuration as read-only: from the  *)
(* start of a run until it is done the plan and the configuration are what *)
(* the handler captured and do not change, and no user action that         *)
(* replaces the plan or edits the configuration (handleGeneratePlan, the   *)
(* form's setConfig, onDone) is enabled while the run is active.           *)
(***************************************************************************)
C17_ReadOnly ==
  /\ [](RunActive =>
          /\ isWeaving
          /\ weave.plan = plan /\ weave.config = config
          /\ ~ENABLED PlanOrConfigAction)
  /\ [][RunActive => (plan' = plan /\ config' = config)]_vars

\* the second of three events is being executed
C17_Witness == RunActive /\ weave.pc = "exec" /\ weave.i = 2 /\ Len(plan) = 3

(***************************************************************************)
(* C18: the complete log of a terminated run has an exact shape.  After a  *)
(* successful connection with a plan of n events it has 2n+3 entries: the  *)
(* initial info entry, the connection-success entry, n pairs of an info    *)
(* entry and a success or error entry, and the closing success entry 'All  *)
(* events processed successfully.', whatever number of events failed.      *)
(* After a failed connection it has 2 entries: the initial info entry and  *)
(* one error entry.                                                        *)
(***************************************************************************)
C18_LogShape ==
  Terminated =>
    /\ logs[1] = [level |-> "info", message |-> InitMsg(config)]
    /\ Connected =>
         /\ Len(logs) = 2 * Len(plan) + 3
         /\ logs[2] = [level |-> "success", message |-> ConnectedMsg(Len(plan))]
         /\ \A k \in DOMAIN plan :
              /\ logs[2 * k + 1].level = "info"
              /\ logs[2 * k + 2].level \in {"success", "error"}
         /\ logs[Len(logs)] = [level |-> "success", message |-> AllProcessedMsg]
    /\ ConnectFailed =>
         /\ Len(logs) = 2
         /\ logs[2].level = "error"
         /\ \E m \in InitErrMsgs : logs[2].message = CriticalMsg(m)
    /\ Connected \/ ConnectFailed

\* a terminated run in which all three events failed: nine entries
C18_Witness ==
  /\ Terminated /\ Connected /\ Len(plan) = 3 /\ Len(logs) = 9
  /\ ~SomeEventSucceeded

(***************************************************************************)
(* C19: at most one run is active at any time and the reset cannot race    *)
(* with a run: handleWeave can be started only from the blueprint phase    *)
(* while no run is active, and 'New Simulation' (onDone) is enabled only   *)
(* when isWeaving is false and progress is 100, when no run is active; in  *)
(* particular not during the final pacing delay, when progress is already  *)
(* 100 but the run has not terminated.                                     *)
(***************************************************************************)
C19_OneRunNoRace ==
  /\ RunActive <=> isWeaving
  /\ RunActive <=> phase = "weaving"
  /\ ENABLED WeaveStart => (phase = "blueprint" /\ ~RunActive)
  /\ ENABLED onDone => (~isWeaving /\ progress = Hundred /\ ~RunActive)
  /\ (weave.pc = "delay" /\ progress = Hundred) => ~ENABLED onDone

\* the final pacing delay: progress is 100 and the run is still active
C19_Witness ==
  /\ weave.pc = "delay" /\ weave.i = Len(weave.plan)
  /\ progress = Hundred /\ isWeaving

(***************************************************************************)
(* The executor's state machine: idle, connecting, running, done.          *)
(***************************************************************************)
RunState ==
  IF weave.pc = "connecting" THEN "connecting"
  ELSE IF weave.pc \in {"exec", "delay"} THEN "running"
  ELSE IF phase = "complete" THEN "done"
  ELSE "idle"

Done == phase = "complete" /\ ~isWeaving /\ progress = Hundred

(***************************************************************************)
(* C12: every run that is started eventually reaches done (phase complete, *)
(* isWeaving false, progress 100), given that each collaborator call and   *)
(* each pacing delay settles.  The run moves only idle -> connecting ->    *)
(* running -> done, or connecting -> done when the connection fails (or    *)
(* when it succeeds with an empty plan, running being left at once); it    *)
(* leaves running only for done, and only when the pacing timer of the     *)
(* last event fires, never on the failure of an event.                     *)
(***************************************************************************)
C12_RunReachesDone ==
  /\ RunActive ~> Done
  /\ [][RunState' # RunState =>
          \/ RunState = "idle" /\ RunState' = "connecting"
          \/ RunState = "connecting" /\ RunState' = "running" /\ Connected' /\ Len(plan) > 0
          \/ RunState = "connecting" /\ RunState' = "done" /\ (ConnectFailed' \/ Len(plan) = 0)
          \/ /\ RunState = "running" /\ RunState' = "done"
             /\ weave.pc = "delay" /\ weave.i = Len(plan)
             /\ Len(ExecSettles') = Len(plan)
          \/ RunState = "done" /\ RunState' = "idle"]_vars

\* a run in which an event has failed and another event is being executed
C12_Witness == RunState = "running" /\ weave.pc = "exec" /\ SomeEventFailed

====
